---- MODULE Spec2Model ----
(***************************************************************************)
(* A state-machine model of the two BlenderVideoMaker classes:             *)
(*   "addon" : src/blender_video_maker_addon.py (the Blender add-on)       *)
(*   "cli"   : src/blender_video_maker.py       (the scripted menu tool)   *)
(* One maker instance is modelled; which class it is, is fixed in Init.    *)
(*                                                                         *)
(* Numbers.  Samples, rates and frame numbers are integers.  Real values   *)
(* the code computes with numpy / math (spectral means, sines, quotients)  *)
(* are kept as terms: records that name the operation and its operands.    *)
(* A term is classified exactly where the code's behaviour depends on it   *)
(* (IsNaN, IsZero).  Optional attributes (None / unset) are sequences of   *)
(* length 0 or 1.                                                          *)
(***************************************************************************)
EXTENDS Integers, Sequences, FiniteSets, TLC

(* ------------------------------ bounds --------------------------------- *)
MaxLen == 4         \* most int16 values in a WAV file body
MaxRate == 2        \* largest declared sample rate
MaxFps == 2         \* largest scene frame rate
MaxArg == 2         \* largest frames_per_fft / chunks argument
MaxRows == 2        \* largest grid row count
MaxCols == 3        \* largest grid column count
MaxSeed == 0        \* largest generator seed
MaxCalls == 5       \* most maker method calls in one behaviour

SampleVals == {-1, 0, 1}
Styles == {"ROLL", "MOUTH", "WAVE"}

(* ------------------------------ helpers -------------------------------- *)
None == <<>>
Some(v) == <<v>>
Get(o) == o[1]

Max(a, b) == IF a >= b THEN a ELSE b

SeqsUpTo(S, n) == UNION {[1..k -> S] : k \in 0..n}

\* int(np.sqrt(n)) for a small non-negative integer n
ISqrt(n) == CHOOSE k \in 0..n : k * k <= n /\ (k + 1) * (k + 1) > n

VARIABLES
  variant,       \* "addon" or "cli": the class of the maker instance
  fps,           \* bpy.context.scene.render.fps
  file,          \* the WAV file last passed to load_audio (None before)
  wav_data,      \* self.wav_data
  sample_rate,   \* self.sample_rate
  fft_data,      \* self.fft_data
  total_frames,  \* self.total_frames (an attribute absent until get_fft sets it)
  frame_start,   \* bpy.context.scene.frame_start
  frame_end,     \* bpy.context.scene.frame_end
  rng,           \* state of the module-level generator of `random`
  objs,          \* the object list create_wave_objects returned last
  keyframes,     \* the keyframes the last animate_objects call inserted, in order
  run,           \* the inputs of the last animate_objects call that reached its loop
  prev,          \* run and keyframes of the call before that one
  last,          \* what the caller saw of the last call
  calls          \* number of maker method calls so far

vars == <<variant, fps, file, wav_data, sample_rate, fft_data, total_frames,
          frame_start, frame_end, rng, objs, keyframes, run, prev, last, calls>>

(* ------------------------------ WAV files ------------------------------ *)
\* The body as np.frombuffer(wf.readframes(wf.getnframes()), dtype=np.int16)
\* returns it: nframes * nchannels values, channel-interleaved.
Bodies(c) == {s \in SeqsUpTo(SampleVals, MaxLen) : Len(s) % c = 0}

\* A 16-bit PCM file: the header's channel count and rate, and the body.
FilesWith(c) ==
  {[nchannels |-> c, framerate |-> r, raw |-> d] : r \in 1..MaxRate, d \in Bodies(c)}

Files == FilesWith(1) \cup FilesWith(2)

\* The recordings the maker's life cycle is explored with: one channel, silence
\* (0) up to an onset and signal (1) from there on.
Tracks(n) == {s \in [1..n -> {0, 1}] : \A i \in 1..(n - 1) : s[i] <= s[i + 1]}

Library ==
  {[nchannels |-> 1, framerate |-> r, raw |-> d] :
     r \in 1..MaxRate, d \in UNION {Tracks(n) : n \in 0..MaxLen}}

NFrames(f) == Len(f.raw) \div f.nchannels

\* data[1::2]: the other channel
DecimateOdd(d) == [k \in 1..(Len(d) \div 2) |-> d[2 * k]]

\* data[::2]
Decimate(d) == [k \in 1..((Len(d) + 1) \div 2) |-> d[2 * k - 1]]

Downmix(f) == IF f.nchannels = 2 THEN Decimate(f.raw) ELSE f.raw

\* What a caller sees of a call: the method and its argument (0 when the model
\* keeps none), the exception that left it ("none": it returned), and whether
\* it returned at its guard, after printing a warning.  Every return is None.
Returned(op, arg) == [op |-> op, arg |-> arg, raised |-> "none", early |-> FALSE]
EarlyReturn(op, arg) == [op |-> op, arg |-> arg, raised |-> "none", early |-> TRUE]
Raised(op, arg, e) == [op |-> op, arg |-> arg, raised |-> e, early |-> FALSE]

load_audio(f) ==
  /\ calls < MaxCalls
  /\ file' = Some(f)
  /\ wav_data' = Some(Downmix(f))
  /\ sample_rate' = Some(f.framerate)
  /\ last' = Returned("load_audio", 0)
  /\ calls' = calls + 1
  /\ UNCHANGED <<variant, fps, fft_data, total_frames, frame_start, frame_end,
                 rng, objs, keyframes, run, prev>>

(* --------------------------- spectral envelope ------------------------- *)
\* np.mean(np.abs(np.fft.fft(segment))[:chunk_size // 2]) as a term: the mean of
\* the magnitudes of bins 0 .. nbins-1 of the DFT of `window`.
SpectrumMean(segment) == [window |-> segment, nbins |-> Len(segment) \div 2]

\* np.mean of an empty slice is nan (numpy warns, it does not raise).
IsNaN(e) == e.nbins = 0

Sum(s) == LET RECURSIVE S(_)
              S(k) == IF k = 0 THEN 0 ELSE s[k] + S(k - 1)
          IN S(Len(s))

Gcd(a, b) == LET RECURSIVE G(_, _)
                 G(x, y) == IF y = 0 THEN x ELSE G(y, x % y)
             IN G(a, b)

IsPrime(m) == m >= 2 /\ \A d \in 2..(m - 1) : m % d # 0
IsPow2(m) == \E j \in 1..m : m = 2 ^ j

\* Bin k of the DFT of the integer sequence x is 0 exactly when the polynomial
\* with coefficients y (x folded modulo M = N / gcd(k, N)) is a multiple of the
\* M-th cyclotomic polynomial.  The cases below cover every bin the bounds
\* reach (M = 1, M prime, M a power of two); no other M is answered.
BinIsZero(x, k) ==
  LET N == Len(x)
      M == N \div Gcd(k, N)
      y == [j \in 0..(M - 1) |->
              Sum([n \in 1..(N \div M) |-> x[(n - 1) * M + j + 1]])]
  IN CASE M = 1 -> Sum(x) = 0
       [] IsPrime(M) -> \A j \in 0..(M - 1) : y[j] = y[0]
       [] IsPow2(M) -> \A j \in 0..(M \div 2 - 1) : y[j] = y[j + M \div 2]

\* The mean of non-negative magnitudes is 0 exactly when each of them is.
IsZero(e) ==
  /\ ~IsNaN(e)
  /\ \A k \in 0..(e.nbins - 1) : BinIsZero(e.window, k)

\* data[i*chunk_size:(i+1)*chunk_size], i counted from 0
Segment(data, i, chunk_size) == SubSeq(data, i * chunk_size + 1, (i + 1) * chunk_size)

\* The envelope both classes build: one SpectrumMean per chunk.
Envelope(data, chunks, chunk_size) ==
  [i \in 1..chunks |-> SpectrumMean(Segment(data, i - 1, chunk_size))]

\* A transform that accepts the empty segment.
FftNeverRaises(chunk_size) == FALSE

\* np.fft.fft raises ValueError ("Invalid number of FFT data points (0)") on an
\* empty segment, which is every segment when chunk_size is 0.
FftRaises(chunk_size) == chunk_size = 0

\* int(len(wav_data) / sample_rate * fps); the bounds keep the float quotient exact.
TotalFrames(n, rate, f) == (n * f) \div rate

\* The add-on: get_fft(frames_per_fft).  np.fft.fft raises ValueError on an
\* empty segment, after the scene's frame range was already written.
get_fft_addon(frames_per_fft) ==
  /\ variant = "addon"
  /\ calls < MaxCalls
  /\ calls' = calls + 1
  /\ IF wav_data = None
     THEN /\ last' = EarlyReturn("get_fft", frames_per_fft)
          /\ UNCHANGED <<fft_data, total_frames, frame_start, frame_end>>
     ELSE LET data == Get(wav_data)
              tf == TotalFrames(Len(data), Get(sample_rate), fps)
              chunks == Max(1, tf \div frames_per_fft)
              chunk_size == Len(data) \div chunks
          IN /\ frame_start' = 1
             /\ frame_end' = tf
             /\ IF FftRaises(chunk_size)
                THEN /\ last' = Raised("get_fft", frames_per_fft, "ValueError")
                     /\ UNCHANGED <<fft_data, total_frames>>
                ELSE /\ fft_data' = Some(Envelope(data, chunks, chunk_size))
                     /\ total_frames' = Some(tf)
                     /\ last' = Returned("get_fft", frames_per_fft)
  /\ UNCHANGED <<variant, fps, file, wav_data, sample_rate, rng, objs, keyframes,
                 run, prev>>

\* The menu tool: get_fft(chunks).
get_fft_cli(chunks) ==
  /\ variant = "cli"
  /\ calls < MaxCalls
  /\ calls' = calls + 1
  /\ IF wav_data = None \/ sample_rate = None
     THEN /\ last' = EarlyReturn("get_fft", chunks)
          /\ UNCHANGED fft_data
     ELSE LET data == Get(wav_data)
              chunk_size == Len(data) \div chunks
          IN IF FftRaises(chunk_size)
             THEN /\ last' = Raised("get_fft", chunks, "ValueError")
                  /\ UNCHANGED fft_data
             ELSE /\ fft_data' = Some(Envelope(data, chunks, chunk_size))
                  /\ last' = Returned("get_fft", chunks)
  /\ UNCHANGED <<variant, fps, file, wav_data, sample_rate, total_frames,
                 frame_start, frame_end, rng, objs, keyframes, run, prev>>

(* ------------------------------ objects -------------------------------- *)
\* A position is the lattice point an object was created on (in units of
\* `spacing`) plus the offsets added to it since, in order.
NewObject(x, y) ==
  [location |-> [grid |-> [x |-> x, y |-> y, z |-> 0], acc |-> <<>>],
   scale |-> None]

\* The add-on: rows of count_x objects, row after row (for y: for x: append).
create_wave_objects_addon(count_x, count_y) ==
  /\ variant = "addon"
  /\ calls < MaxCalls
  /\ calls' = calls + 1
  /\ objs' = [k \in 1..(count_x * count_y) |->
                NewObject((k - 1) % count_x, (k - 1) \div count_x)]
  /\ last' = Returned("create_wave_objects", 0)
  /\ UNCHANGED <<variant, fps, file, wav_data, sample_rate, fft_data, total_frames,
                 frame_start, frame_end, rng, keyframes, run, prev>>

\* The menu tool: a line of `count` objects at (i*0.3, 0, 0).
create_wave_objects_cli(count) ==
  /\ variant = "cli"
  /\ calls < MaxCalls
  /\ calls' = calls + 1
  /\ objs' = [k \in 1..count |-> NewObject(k - 1, 0)]
  /\ last' = Returned("create_wave_objects", 0)
  /\ UNCHANGED <<variant, fps, file, wav_data, sample_rate, fft_data, total_frames,
                 frame_start, frame_end, rng, keyframes, run, prev>>

(* --------------------------- random phases ----------------------------- *)
\* The generator is a deterministic stream fixed by its seed; its state is the
\* seed and the number of values drawn since.  random.random() * np.pi * 2 of
\* the j-th next draw, as a term:
Random(g, j) == [seed |-> g.seed, draw |-> g.pos + j]
Advance(g, n) == [g EXCEPT !.pos = @ + n]
NoPhase == [seed |-> -1, draw |-> 0]
\* The seed a fresh interpreter takes from the operating system: not known.
UnknownSeed == [seed |-> -2, pos |-> 0]

\* random.seed(s), called by whoever drives the maker
seed(s) ==
  /\ variant = "addon"
  /\ calls < MaxCalls
  /\ fft_data # None /\ objs # <<>>
  /\ rng' = [seed |-> s, pos |-> 0]
  /\ UNCHANGED <<variant, fps, file, wav_data, sample_rate, fft_data, total_frames,
                 frame_start, frame_end, objs, keyframes, run, prev, last, calls>>

(* ------------------------------ animation ------------------------------ *)
\* Animation parameters in hundredths (2.5, 0.12, 0.15 are the defaults).
Exaggeration == 250
MorphAmount == 12
ZWaveEmphasis == 15
DefaultTotalFrames == 250
CliFrameStep == 2

Configs ==
  {[animation_type |-> a, exaggeration |-> Exaggeration,
    morph_amount |-> MorphAmount, z_wave_emphasis |-> ZWaveEmphasis] : a \in Styles}

\* amp / max_val with max_val = max(self.fft_data), as a term.  numpy's float
\* division does not raise: nan operands and 0/0 give nan.
Quotient(amp, env) == [amp |-> amp, max_of |-> env]

\* Python's max keeps its first item unless a later one compares greater, and
\* every comparison with nan is false.
PyMaxIsNaN(env) == IsNaN(env[1])
PyMaxIsZero(env) == ~PyMaxIsNaN(env) /\ \A s \in 1..Len(env) : IsNaN(env[s]) \/ IsZero(env[s])

NormIsNaN(q) == IsNaN(q.amp) \/ PyMaxIsNaN(q.max_of) \/ PyMaxIsZero(q.max_of)
NormIsZero(q) == ~NormIsNaN(q) /\ IsZero(q.amp)

\* sin(tmul/10 * t + shift/100) with t = frame * 0.05 + phase, as a term
SinOf(tmul, frame, phase, shift) ==
  [kind |-> "sin", tmul |-> tmul, frame |-> frame, phase |-> phase, shift |-> shift]
\* sin(shift/100)
SinConst(shift) == SinOf(0, 0, NoPhase, shift)
\* no sine factor
One == [kind |-> "one", tmul |-> 0, frame |-> 0, phase |-> NoPhase, shift |-> 0]

\* (morph_x, morph_y, z_wave) of one object at one frame:
\*   x = coef * wave, y = coef * wave,
\*   z = norm * exaggeration * factor + emphasis * ripple
Offset(cfg, norm, frame, phase, i, cols) ==
  LET row == i \div cols
      col == i % cols
      offset == (row + col) * 15
      mx == CASE cfg.animation_type = "ROLL" -> SinOf(10, frame, phase, 0)
              [] cfg.animation_type = "MOUTH" -> SinOf(10, frame, phase, i * 10)
              [] cfg.animation_type = "WAVE" -> SinOf(10, frame, phase, offset)
      my == CASE cfg.animation_type = "ROLL" -> SinOf(10, frame, phase, 0)
              [] cfg.animation_type = "MOUTH" -> SinOf(11, frame, phase, i * 10)
              [] cfg.animation_type = "WAVE" -> SinOf(10, frame, phase, offset)
      factor == CASE cfg.animation_type = "ROLL" -> One
                  [] cfg.animation_type = "MOUTH" -> SinConst(i * 20)
                  [] cfg.animation_type = "WAVE" -> SinOf(10, frame, phase, offset)
      ripple == CASE cfg.animation_type = "ROLL" -> SinOf(10, frame, phase, 0)
                  [] cfg.animation_type = "MOUTH" -> SinOf(3, frame, phase, 0)
                  [] cfg.animation_type = "WAVE" -> SinOf(3, frame, phase, 0)
  IN [x |-> [coef |-> cfg.morph_amount, wave |-> mx],
      y |-> [coef |-> cfg.morph_amount, wave |-> my],
      z |-> [norm |-> norm, exaggeration |-> cfg.exaggeration, factor |-> factor,
             emphasis |-> cfg.z_wave_emphasis, ripple |-> ripple]]

\* base.x + morph_x, base.y + morph_y, base.z + z_wave
Displace(base, off) == [base EXCEPT !.acc = Append(@, off)]

\* frames_per_chunk = max(1, total_frames // len(self.fft_data))
FramesPerChunk(tf, n) == Max(1, tf \div n)

\* A frame counter that is never advanced.
FrameStuck(s, step) == 1

\* `frame` when chunk s (from 0) is reached: frame = 1, then frame += step per chunk
RECURSIVE FrameAt(_, _)
FrameAt(s, step) == IF s = 0 THEN 1 ELSE FrameAt(s - 1, step) + step

\* The row and column animate_objects derives for flat index i (from 0).
AnimCols(num_objs) == ISqrt(num_objs)
AnimRow(i, num_objs) == i \div AnimCols(num_objs)
AnimCol(i, num_objs) == i % AnimCols(num_objs)

\* random_phases = [random.random() * np.pi * 2 for _ in objs]
RandomPhases(g, n) == [i \in 1..n |-> Random(g, i - 1)]

\* Phases drawn anew inside the chunk loop.
PhaseRedrawn(phases, s, i) == [phases[i + 1] EXCEPT !.draw = @ + s * Len(phases)]

\* The phase used for object i (from 0) at chunk s: random_phases[i]
PhaseAt(phases, s, i) == phases[i + 1]

\* The add-on's keyframe for chunk s (from 0) and object i (from 0).
AddonKeyframe(cfg, env, tf, bases, phases, s, i) ==
  LET frame == FrameAt(s, FramesPerChunk(tf, Len(env)))
      phase == PhaseAt(phases, s, i)
      n == Len(bases)
      off == Offset(cfg, Quotient(env[s + 1], env), frame, phase, i, AnimCols(n))
  IN [obj |-> i, chunk |-> s, frame |-> frame, data_path |-> "location",
      phase |-> phase, row |-> AnimRow(i, n), col |-> AnimCol(i, n),
      offset |-> off, value |-> Displace(bases[i + 1], off)]

animate_objects_addon(cfg) ==
  /\ variant = "addon"
  /\ calls < MaxCalls
  /\ objs # <<>>
  /\ calls' = calls + 1
  /\ IF fft_data = None
     THEN /\ last' = EarlyReturn("animate_objects", 0)
          /\ UNCHANGED <<rng, objs, keyframes, run, prev>>
     ELSE LET env == Get(fft_data)
              tf == IF total_frames = None THEN DefaultTotalFrames ELSE Get(total_frames)
              n == Len(objs)
              base_positions == [i \in 1..n |-> objs[i].location]
              random_phases == RandomPhases(rng, n)
              kfs == [j \in 1..(Len(env) * n) |->
                        AddonKeyframe(cfg, env, tf, base_positions, random_phases,
                                      (j - 1) \div n, (j - 1) % n)]
          IN /\ keyframes' = kfs
             /\ objs' = [i \in 1..n |->
                           [objs[i] EXCEPT !.location = kfs[(Len(env) - 1) * n + i].value]]
             /\ rng' = Advance(rng, n)
             /\ prev' = Some([run |-> run, keyframes |-> keyframes])
             /\ run' = Some([rng |-> rng, env |-> env, tf |-> tf, cfg |-> cfg,
                             bases |-> base_positions])
             /\ last' = Returned("animate_objects", 0)
  /\ UNCHANGED <<variant, fps, file, wav_data, sample_rate, fft_data, total_frames,
                 frame_start, frame_end>>

\* scale_factor = 1 + (amp / max_val) * np.sin(i), as a term
ScaleFactor(norm, i) == [norm |-> norm, wave |-> SinConst(i * 100)]

\* The menu tool's keyframe for chunk s (from 0) and object i (from 0).
CliKeyframe(env, s, i) ==
  LET sf == ScaleFactor(Quotient(env[s + 1], env), i)
  IN [obj |-> i, chunk |-> s, frame |-> FrameAt(s, CliFrameStep),
      data_path |-> "scale", value |-> sf]

animate_objects_cli ==
  /\ variant = "cli"
  /\ calls < MaxCalls
  /\ objs # <<>>
  /\ calls' = calls + 1
  /\ IF fft_data = None
     THEN /\ last' = EarlyReturn("animate_objects", 0)
          /\ UNCHANGED <<objs, keyframes, run, prev>>
     ELSE LET env == Get(fft_data)
              n == Len(objs)
              kfs == [j \in 1..(Len(env) * n) |->
                        CliKeyframe(env, (j - 1) \div n, (j - 1) % n)]
          IN /\ keyframes' = kfs
             /\ objs' = [i \in 1..n |->
                           [objs[i] EXCEPT !.scale = Some(kfs[(Len(env) - 1) * n + i].value)]]
             /\ prev' = Some([run |-> run, keyframes |-> keyframes])
             /\ run' = Some([rng |-> rng, env |-> env, tf |-> 0, cfg |-> "scale",
                             bases |-> [i \in 1..n |-> objs[i].location]])
             /\ last' = Returned("animate_objects", 0)
  /\ UNCHANGED <<variant, fps, file, wav_data, sample_rate, fft_data, total_frames,
                 frame_start, frame_end, rng>>

(* --------------------------- specification ----------------------------- *)
\* A new maker (__init__), a scene with the host's default frame range, and a
\* generator seeded from a source the program does not control.  Only the
\* add-on reads the scene's frame rate.
Init ==
  /\ variant \in {"addon", "cli"}
  /\ fps \in (IF variant = "addon" THEN 1..MaxFps ELSE {1})
  /\ file = None
  /\ wav_data = None
  /\ sample_rate = None
  /\ fft_data = None
  /\ total_frames = None
  /\ frame_start = 1
  /\ frame_end = 250
  /\ rng = UnknownSeed
  /\ objs = <<>>
  /\ keyframes = <<>>
  /\ run = None
  /\ prev = None
  /\ last = Returned("__init__", 0)
  /\ calls = 0

Next ==
  \/ \E f \in Library : load_audio(f)
  \/ \E a \in 1..MaxArg : get_fft_addon(a)
  \/ \E a \in 1..MaxArg : get_fft_cli(a)
  \/ \E r \in 1..MaxRows, c \in 1..MaxCols : create_wave_objects_addon(c, r)
  \/ \E c \in 1..MaxCols : create_wave_objects_cli(c)
  \/ \E cfg \in Configs : animate_objects_addon(cfg)
  \/ animate_objects_cli
  \/ \E s \in 0..MaxSeed : seed(s)

Spec == Init /\ [][Next]_vars

\* load_audio alone, over every file within the bounds.
NextLoad == \E f \in Files : load_audio(f)

SpecLoad == Init /\ [][NextLoad]_vars

(* ------------------------------- claims -------------------------------- *)
Animated == last = Returned("animate_objects", 0)
Env == Get(run).env
\* The normalised energy a keyframe was computed from.
NormOf(k) == IF variant = "addon" THEN k.offset.z.norm ELSE k.value.norm
KeyIdx == 1..Len(keyframes)

\* Every window holds at least one retained bin and only zero samples.
SilentEnvelope(env) ==
  \A s \in 1..Len(env) :
    /\ ~IsNaN(env[s])
    /\ \A j \in 1..Len(env[s].window) : env[s].window[j] = 0

\* C1: after animate_objects over the envelope of a silent track, every
\* keyframe's normalised energy is 0 and none is undefined (nan).
C1_SilentTrackGivesZeroEnergy ==
  (Animated /\ SilentEnvelope(Env)) =>
    \A j \in KeyIdx : ~NormIsNaN(NormOf(keyframes[j])) /\ NormIsZero(NormOf(keyframes[j]))

\* C2: after the add-on's get_fft on a loaded track, the frame count it
\* scheduled (written as the scene's end frame, and kept as total_frames) is
\* floor(len(samples) / sampleRate * frameRate) clamped to at least 1, and the
\* end frame is not before the start frame.
C2_FrameCountAtLeastOne ==
  (variant = "addon" /\ last.op = "get_fft" /\ ~last.early) =>
    /\ frame_end = Max(1, TotalFrames(Len(Get(wav_data)), Get(sample_rate), fps))
    /\ frame_end >= frame_start
    /\ last.raised = "none" => (Get(total_frames) >= 1 /\ Get(total_frames) = frame_end)

\* The number of segments the last get_fft call asked for.
SegmentCount ==
  IF variant = "cli" THEN last.arg
  ELSE Max(1, TotalFrames(Len(Get(wav_data)), Get(sample_rate), fps) \div last.arg)

\* C3: when get_fft is asked for a valid number of segments (at least 1, at
\* most the number of samples), the envelope has exactly that many values and
\* every one of them is a defined number.
C3_EnvelopeHasSegmentCountDefinedValues ==
  (last.op = "get_fft" /\ ~last.early /\ SegmentCount <= Len(Get(wav_data))) =>
    /\ last.raised = "none"
    /\ Len(Get(fft_data)) = SegmentCount
    /\ \A s \in 1..Len(Get(fft_data)) : ~IsNaN(Get(fft_data)[s])

\* C4: a get_fft call whose segment count exceeds the number of samples ends
\* with an error and leaves fft_data as it was.
C4_TooManySegmentsFails ==
  [][(last'.op = "get_fft" /\ calls' = calls + 1 /\ ~last'.early
        /\ (IF variant = "cli" THEN last'.arg
            ELSE Max(1, TotalFrames(Len(Get(wav_data)), Get(sample_rate), fps)
                          \div last'.arg)) > Len(Get(wav_data)))
       => (last'.raised # "none" /\ fft_data' = fft_data)]_vars

\* A failed get_fft on a track that has samples, an earlier envelope kept.
C4_Witness ==
  /\ last.op = "get_fft"
  /\ last.raised = "ValueError"
  /\ Len(Get(wav_data)) > 0
  /\ fft_data # None

\* C5: animate_objects without an envelope signals failure to its caller and
\* writes no keyframe and moves no object; get_fft without a loaded track
\* leaves fft_data unset.
C5_MissingEnvelopeIsFatal ==
  /\ (last.op = "animate_objects" /\ last.early) =>
       /\ last.raised # "none"
       /\ keyframes = <<>>
       /\ \A i \in 1..Len(objs) : objs[i].location.acc = <<>> /\ objs[i].scale = None
  /\ (last.op = "get_fft" /\ last.early) => fft_data = None

\* The lattice point object i (from 1) was created on, nothing added.
GridBase(i) == [grid |-> objs[i].location.grid, acc |-> <<>>]

SameInputs(r1, r2) ==
  r1.rng = r2.rng /\ r1.env = r2.env /\ r1.tf = r2.tf /\ r1.cfg = r2.cfg
    /\ Len(r1.bases) = Len(r2.bases)

\* C6: every position the add-on keyframes is the element's lattice position
\* plus the offset of that (frame, element), and a run repeated on the same
\* objects with the same envelope, config and phases keyframes the same
\* positions as the run before.
C6_PositionIsBasePlusOffset ==
  (variant = "addon" /\ Animated) =>
    /\ \A j \in KeyIdx :
         keyframes[j].value = Displace(GridBase(keyframes[j].obj + 1), keyframes[j].offset)
    /\ (Get(prev).run # None /\ SameInputs(Get(Get(prev).run), Get(run))) =>
         \A j \in KeyIdx : keyframes[j].value = Get(prev).keyframes[j].value

\* The frames each call steps by: the add-on's stride, the menu tool's 2.
Stride ==
  IF variant = "addon" THEN Max(1, Get(run).tf \div Len(Env)) ELSE CliFrameStep

C8_WaveRowColAreLatticeRowCol ==
  (variant = "addon" /\ Animated /\ Get(run).cfg.animation_type = "WAVE") =>
    \A j \in KeyIdx :
      /\ keyframes[j].row = objs[keyframes[j].obj + 1].location.grid.y
      /\ keyframes[j].col = objs[keyframes[j].obj + 1].location.grid.x

Samples(kfs) ==
  [j \in 1..Len(kfs) |-> <<kfs[j].obj, kfs[j].frame, kfs[j].offset>>]

C10_DownmixByDecimation ==
  file # None =>
    LET f == Get(file)
        data == Get(wav_data)
    IN /\ sample_rate = Some(f.framerate)
       /\ f.nchannels = 2 =>
            /\ Len(data) = NFrames(f)
            /\ \A k \in 0..(Len(data) - 1) : data[k + 1] = f.raw[2 * k + 1]
       /\ f.nchannels = 1 => data = f.raw

\* A two-frame stereo file whose channels differ has been loaded.
C10_Witness ==
  /\ file # None
  /\ Get(file).nchannels = 2
  /\ NFrames(Get(file)) = 2
  /\ Get(file).raw[1] # Get(file).raw[2]
  /\ Get(file).raw[3] # Get(file).raw[4]
  /\ Len(Get(wav_data)) = 2

\* C11: after the add-on's get_fft has configured the scene's frame range and
\* animate_objects has run over the envelope of that same call, every keyframe
\* lies inside the range: frame_start <= frame <= frame_end.
C11_KeyframesInsidePlaybackRange ==
  (variant = "addon" /\ Animated /\ total_frames # None
     /\ Get(run).tf = Get(total_frames) /\ frame_end = Get(total_frames)) =>
    \A j \in KeyIdx :
      frame_start <= keyframes[j].frame /\ keyframes[j].frame <= frame_end

\* Some get_fft argument turns the loaded samples into the stored envelope
\* (and, in the add-on, into the stored frame count).
IsEnvelopeOfLoaded(env) ==
  /\ wav_data # None
  /\ \E a \in 1..MaxArg :
       LET data == Get(wav_data)
           tf == TotalFrames(Len(data), Get(sample_rate), fps)
           chunks == IF variant = "cli" THEN a ELSE Max(1, tf \div a)
           chunk_size == Len(data) \div chunks
       IN /\ ~FftRaises(chunk_size)
          /\ env = Envelope(data, chunks, chunk_size)
          /\ variant = "addon" => total_frames = Some(tf)

\* C12: whenever fft_data is set it is the envelope (and total_frames the frame
\* count) of the samples now loaded, and the envelope animate_objects has just
\* keyframed from is the envelope of the samples now loaded.
C12_EnvelopeIsOfLoadedTrack ==
  /\ fft_data # None => IsEnvelopeOfLoaded(Get(fft_data))
  /\ Animated => IsEnvelopeOfLoaded(Env)

====
